---- MODULE Spec2Model ----
(***************************************************************************)
(* AG-DownGel (src/main.py): a PyQt window whose start button launches a   *)
(* background Worker.  Worker.run pages through the search API, collects   *)
(* the posts and then downloads every post whose extension is allowed      *)
(* into a category subdirectory, reporting through the statusChanged and   *)
(* progressUpdated signals.                                                 *)
(*                                                                         *)
(* The page size the worker asks for (limit = 1000, lines 39 and 100) is   *)
(* scaled down to PageSize; every other number is the program's own.       *)
(***************************************************************************)
EXTENDS Integers, Sequences, FiniteSets, TLC

\* ---------------------------------------------------------------- bounds
PageSize == 10      \* records of a full page (1000 in the source, scaled)
MaxPages == 2       \* the server delivers at most this many pages per run
MaxShort == 1       \* longest short page the server is made to answer with

\* ------------------------------------------------------ program constants
StatusEvery == 10   \* processed % 10 == 0, line 160

video_exts == {".mp4", ".webm", ".avi", ".mov", ".swf"}
gif_ext == ".gif"
image_exts == {".jpg", ".jpeg", ".png", ".bmp", ".webp", ".tga"}

\* ------------------------------------------------------------ option type
\* dict.get(key, default): an absent key is <<>>, a present one <<value>>.
Get(opt, default) == IF Len(opt) = 0 THEN default ELSE opt[1]

\* -------------------------------------------------------------- post data
\* A record of the post list.  isdict: the record is a JSON object;
\* has_url: "file_url" is present and truthy; stem/ext: the basename of the
\* URL's path split at its last dot; ok: the file download succeeds.
MkPost(isdict, has_url, ext, ok) ==
    [isdict |-> isdict, has_url |-> has_url, ext |-> ext, ok |-> ok]

NonDictPost == MkPost(FALSE, FALSE, "", FALSE)
NoUrlPost == MkPost(TRUE, FALSE, "", FALSE)

PostKinds ==
    { NonDictPost, NoUrlPost,
      MkPost(TRUE, TRUE, ".jpg", TRUE),
      MkPost(TRUE, TRUE, ".JPG", FALSE),
      MkPost(TRUE, TRUE, ".gif", TRUE),
      MkPost(TRUE, TRUE, ".mp4", TRUE),
      MkPost(TRUE, TRUE, ".zip", TRUE),
      MkPost(TRUE, TRUE, "", TRUE) }

\* The records the server fills its full pages with, in turn.
FullPattern ==
    << MkPost(TRUE, TRUE, ".gif", FALSE), MkPost(TRUE, TRUE, ".jpg", TRUE) >>

Rep(k, n) == [i \in 1..n |-> k]

ShortPages == { Rep(k, n) : k \in PostKinds, n \in 0..MaxShort }
FullPages ==
    { [i \in 1..PageSize |-> FullPattern[((i - 1) % Len(FullPattern)) + 1]] }
Pages == ShortPages \cup FullPages

\* str.lower() on the extensions that occur.
Lower(ext) == IF ext = ".JPG" THEN ".jpg" ELSE ext

\* Lines 126-134: the extension the allow-list sees.  A basename without a
\* dot gets the default ".jpg"; otherwise the extension, lower-cased.
ExtOf(post) == IF post.ext = "" THEN ".jpg" ELSE Lower(post.ext)

\* Lines 118, 122: the record is an object with a usable file URL.
Usable(post) == post.isdict /\ post.has_url

\* Lines 141-146.
Subdir(ext) ==
    IF ext = gif_ext THEN "GIF"
    ELSE IF ext \in video_exts THEN "videos"
    ELSE "images"

\* Lines 317-323.
AllowedExts(images, gif, video) ==
    (IF images THEN image_exts ELSE {})
        \cup (IF gif THEN {gif_ext} ELSE {})
        \cup (IF video THEN video_exts ELSE {})

\* ------------------------------------------------------------- responses
NoData == [type |-> "none", items |-> <<>>, success |-> <<>>,
           post |-> <<>>, count |-> <<>>]
JList(p) == [type |-> "list", items |-> p, success |-> <<>>,
             post |-> <<>>, count |-> <<>>]
JDict(success, post, count) ==
    [type |-> "dict", items |-> <<>>, success |-> success,
     post |-> post, count |-> count]
JOther == [type |-> "other", items |-> <<>>, success |-> <<>>,
           post |-> <<>>, count |-> <<>>]

MkResp(raises, code, text, data) ==
    [raises |-> raises, status_code |-> code, text |-> text, data |-> data]

NoResp == MkResp(FALSE, 0, "none", NoData)

\* The total counts the "@attributes" of an envelope may carry.
CountAttrs == {<<>>, <<7>>}

\* text: what response.text.strip()[:200] holds ("blank": nothing; "json":
\* a JSON document; otherwise a non-JSON text, named by the phrase in it).
Responses ==
    { MkResp(TRUE, 0, "none", NoData) }
    \cup { MkResp(FALSE, 401, "login_required", NoData),
           MkResp(FALSE, 500, "blank", NoData) }
    \cup { MkResp(FALSE, 200, t, NoData) :
             t \in {"blank", "plain", "Missing authentication",
                    "login_required", "LOGIN_REQUIRED"} }
    \cup { MkResp(FALSE, 200, "json", JOther),
           MkResp(FALSE, 200, "json", JDict(<<FALSE>>, <<>>, <<>>)),
           MkResp(FALSE, 200, "json", JDict(<<>>, <<>>, <<>>)) }
    \cup { MkResp(FALSE, 200, "json", JList(p)) : p \in Pages }
    \cup { MkResp(FALSE, 200, "json", JDict(<<TRUE>>, <<p>>, c)) :
             p \in ShortPages, c \in CountAttrs }
    \cup { MkResp(FALSE, 200, "json", JDict(<<>>, <<p>>, <<7>>)) :
             p \in FullPages }

\* The post list a response would deliver if it is accepted.
PageOf(resp) ==
    IF resp.data.type = "list" THEN resp.data.items
    ELSE Get(resp.data.post, <<>>)

\* Mutant of AuthHint: the second test compares without lower().
AuthHint_CaseSensitive(text) ==
    text = "Missing authentication" \/ text = "login_required"

\* Line 67: the excerpt names an authentication requirement.
AuthHint(text) ==
    text = "Missing authentication"
        \/ text \in {"login_required", "LOGIN_REQUIRED"}

\* ---------------------------------------------------------------- events
Status(key, args) == [sig |-> "status", key |-> key, a |-> args]
Progress(current, total) ==
    [sig |-> "progress", key |-> "progress", a |-> <<current, total>>]

VARIABLES
    download_btn_enabled,   \* MainWindow.download_btn.isEnabled()
    progress_visible,       \* MainWindow.progress.isVisible()
    status_label,           \* key of the text MainWindow.status_label shows
    phase,                  \* where the worker is
    allowed_exts,           \* Worker.allowed_exts
    pid, posts, total_count, has_total,            \* locals of run, fetch
    processed, downloaded, total_posts,            \* locals of run, download
    events,                 \* signals the worker emitted in this run
    requested,              \* page offsets requested in this run
    pageLens,               \* lengths of the pages accepted in this run
    lastResp,               \* the last page response received in this run
    subdirs,                \* category subdirectories created in this run
    dlRequests              \* indices of the posts whose file was requested

fetchVars == <<pid, posts, total_count, has_total, requested, pageLens,
               lastResp>>
dlVars == <<processed, downloaded, total_posts, subdirs, dlRequests>>
vars == <<download_btn_enabled, progress_visible, status_label, phase,
          allowed_exts, pid, posts, total_count, has_total, processed,
          downloaded, total_posts, events, requested, pageLens, lastResp,
          subdirs, dlRequests>>

\* No worker yet: its locals and what it did are blank.
NoWorker ==
    /\ pid = 0 /\ posts = <<>> /\ total_count = 0 /\ has_total = FALSE
    /\ processed = 0 /\ downloaded = 0 /\ total_posts = 0
    /\ events = <<>> /\ requested = <<>> /\ pageLens = <<>>
    /\ lastResp = NoResp /\ subdirs = {} /\ dlRequests = {}

Init ==
    /\ download_btn_enabled = TRUE
    /\ progress_visible = FALSE
    /\ status_label = "status_initial"
    /\ phase = "idle"
    /\ allowed_exts = {}
    /\ NoWorker

\* -------------------------------------------------------- emitting signals
RECURSIVE LastStatusKey(_, _)
\* statusChanged is connected to status_label.setText (line 344): the label
\* shows the last status text emitted.
LastStatusKey(evs, default) ==
    IF Len(evs) = 0 THEN default
    ELSE IF evs[Len(evs)].sig = "status" THEN evs[Len(evs)].key
    ELSE LastStatusKey(SubSeq(evs, 1, Len(evs) - 1), default)

Emit(evs) ==
    /\ events' = events \o evs
    /\ status_label' = LastStatusKey(evs, status_label)

\* ------------------------------------------------------------ MainWindow
\* Mutant of BtnAfterStart: the button is left enabled.
BtnAfterStart_Enabled == TRUE

\* Line 339: download_btn.setEnabled(False).
BtnAfterStart == FALSE

\* Mutant of BtnAfterFinished: the button is not enabled again.
BtnAfterFinished_Disabled == FALSE

\* Line 357: download_btn.setEnabled(True).
BtnAfterFinished == TRUE

\* Lines 295-347.  The button delivers clicked only while it is enabled
\* (line 256).  tags_empty: the tags field is blank; images, gif, video:
\* the three file type check boxes.
start_download(tags_empty, images, gif, video) ==
    /\ download_btn_enabled
    /\ IF tags_empty
       THEN /\ status_label' = "enter_tags_error"
            /\ UNCHANGED <<download_btn_enabled, progress_visible, phase,
                           allowed_exts, events, fetchVars, dlVars>>
       ELSE IF AllowedExts(images, gif, video) = {}
       THEN /\ status_label' = "select_file_type_error"
            /\ UNCHANGED <<download_btn_enabled, progress_visible, phase,
                           allowed_exts, events, fetchVars, dlVars>>
       ELSE /\ status_label' = "searching_tags"
            /\ download_btn_enabled' = BtnAfterStart
            /\ progress_visible' = TRUE
            /\ allowed_exts' = AllowedExts(images, gif, video)
            /\ phase' = "started"
            /\ pid' = 0 /\ posts' = <<>>
            /\ total_count' = 0 /\ has_total' = FALSE
            /\ processed' = 0 /\ downloaded' = 0 /\ total_posts' = 0
            /\ events' = <<>> /\ requested' = <<>> /\ pageLens' = <<>>
            /\ lastResp' = NoResp /\ subdirs' = {} /\ dlRequests' = {}

\* Lines 356-359, run when the worker's finished signal arrives.
on_finished ==
    /\ phase = "finished"
    /\ phase' = "idle"
    /\ download_btn_enabled' = BtnAfterFinished
    /\ progress_visible' = FALSE
    /\ UNCHANGED <<status_label, allowed_exts, events, fetchVars, dlVars>>

\* ------------------------------------------------------------ Worker.run
\* Mutant of AfterFailure: break out of the paging loop instead of return.
AfterFailure_Break == "fetched"

\* Lines 60, 63, 71, 82, 90: a failed page returns from run.
AfterFailure == "finished"

\* Mutant of IsLastPage: only an empty page ends the paging.
IsLastPage_Empty(new_posts) == Len(new_posts) = 0

\* Line 100: a page shorter than the page size is the last one.
IsLastPage(new_posts) == Len(new_posts) < PageSize

\* Line 84: the envelope's total is read while none is recorded.
ReadsTotal(total, page) == total = 0

\* Lines 32-52: the thread starts, sets up its locals and announces itself.
run_begin ==
    /\ phase = "started"
    /\ phase' = "fetching"
    /\ Emit(<<Status("getting_posts", <<>>)>>)
    /\ UNCHANGED <<download_btn_enabled, progress_visible, allowed_exts,
                   fetchVars, dlVars>>

\* A failed page: one status and the return (or the catch-all of line 168).
FetchFails(ev, next) ==
    /\ Emit(<<ev>>)
    /\ phase' = next
    /\ UNCHANGED <<pid, posts, total_count, has_total, pageLens>>

\* Lines 92-102: the page is appended and reported.
FetchAccepts(new_posts, total, known) ==
    /\ posts' = posts \o new_posts
    /\ total_count' = total
    /\ has_total' = known
    /\ pageLens' = Append(pageLens, Len(new_posts))
    /\ Emit(<< Progress(Len(posts) + Len(new_posts),
                        IF known THEN total ELSE 0),
               Status("received_posts",
                      <<Len(posts) + Len(new_posts),
                        IF known THEN total ELSE 0>>) >>)
    /\ IF IsLastPage(new_posts)
       THEN phase' = "fetched" /\ pid' = pid
       ELSE phase' = "fetching" /\ pid' = pid + 1

\* Lines 53-102: one turn of the paging loop on the response resp.
FetchPage(resp) ==
    /\ phase = "fetching"
    /\ requested' = Append(requested, pid)
    /\ lastResp' = resp
    /\ UNCHANGED <<download_btn_enabled, progress_visible, allowed_exts,
                   dlVars>>
    /\ IF resp.raises
       THEN FetchFails(Status("unexpected_error", <<>>), "finished")
       ELSE IF resp.status_code # 200
       THEN FetchFails(Status("http_error", <<resp.status_code>>),
                       AfterFailure)
       ELSE IF resp.text = "blank"
       THEN FetchFails(Status("empty_response", <<resp.status_code>>),
                       AfterFailure)
       ELSE IF resp.data.type = "none"
       THEN IF AuthHint(resp.text)
            THEN FetchFails(Status("json_error_auth", <<>>), AfterFailure)
            ELSE FetchFails(Status("json_error", <<>>), AfterFailure)
       ELSE IF resp.data.type = "list"
       THEN FetchAccepts(resp.data.items, total_count, has_total)
       ELSE IF resp.data.type = "dict"
       THEN IF ~Get(resp.data.success, TRUE)
            THEN FetchFails(Status("api_error", <<>>), AfterFailure)
            ELSE LET new_posts == Get(resp.data.post, <<>>)
                 IN  IF ReadsTotal(total_count, pid)
                     THEN FetchAccepts(new_posts,
                                       Get(resp.data.count, Len(new_posts)),
                                       TRUE)
                     ELSE FetchAccepts(new_posts, total_count, has_total)
       ELSE FetchFails(Status("unexpected_type", <<>>), AfterFailure)

\* The server: any response, but it runs out of full pages.
Fetch ==
    \E resp \in Responses :
        /\ (pid >= MaxPages - 1 => Len(PageOf(resp)) < PageSize)
        /\ FetchPage(resp)

\* Lines 104-114: after the loop.
after_fetch ==
    /\ phase = "fetched"
    /\ IF Len(posts) = 0
       THEN /\ Emit(<<Status("no_posts", <<>>)>>)
            /\ phase' = "finished"
            /\ UNCHANGED <<processed, downloaded, total_posts>>
       ELSE /\ Emit(<<Status("starting_download", <<>>)>>)
            /\ phase' = "downloading"
            /\ downloaded' = 0
            /\ processed' = 0
            /\ total_posts' = Len(posts)
    /\ UNCHANGED <<download_btn_enabled, progress_visible, allowed_exts,
                   fetchVars, subdirs, dlRequests>>

\* Line 136.
Eligible(post, allowed) == ExtOf(post) \in allowed

\* Mutant of MakesDir: the directory is made before the allow-list test.
MakesDir_BeforeCheck(post, allowed) == Usable(post)

\* Lines 118-149: os.makedirs is reached past the three skips only.
MakesDir(post, allowed) == Usable(post) /\ Eligible(post, allowed)

\* Mutant of SkipEvents: a skipped record emits nothing.
SkipEvents_None(n, total) == <<>>

\* Lines 119, 123, 137: what a skipped record emits.
SkipEvents(n, total) == <<Progress(n, total)>>

\* Lines 160-161: the aggregate status of a completed download.
AggregateEvents(n, total, done) ==
    IF n % StatusEvery = 0
    THEN <<Status("processed_downloaded", <<n, total, done>>)>>
    ELSE <<>>

\* Mutant of CatchesDownloadError: the handler misses the error raised.
CatchesDownloadError_Narrow == FALSE

\* Line 162: the handler around the download catches every Exception.
CatchesDownloadError == TRUE

\* Lines 116-164: one turn of the download loop.  mkdir_ok: os.makedirs
\* succeeds (it raises OSError otherwise, outside the inner handler).
ProcessPost(mkdir_ok) ==
    /\ phase = "downloading"
    /\ processed < Len(posts)
    /\ LET n == processed + 1
           post == posts[n]
           ext == ExtOf(post)
       IN  /\ processed' = n
           /\ subdirs' = IF MakesDir(post, allowed_exts) /\ mkdir_ok
                         THEN subdirs \cup {Subdir(ext)}
                         ELSE subdirs
           /\ IF ~Usable(post) \/ ~Eligible(post, allowed_exts)
              THEN /\ Emit(SkipEvents(n, total_posts))
                   /\ phase' = "downloading"
                   /\ UNCHANGED <<downloaded, dlRequests>>
              ELSE IF ~mkdir_ok
              THEN /\ Emit(<<Status("unexpected_error", <<>>)>>)
                   /\ phase' = "finished"
                   /\ UNCHANGED <<downloaded, dlRequests>>
              ELSE /\ dlRequests' = dlRequests \cup {n}
                   /\ IF post.ok
                      THEN /\ downloaded' = downloaded + 1
                           /\ Emit(AggregateEvents(n, total_posts,
                                                   downloaded + 1)
                                     \o <<Progress(n, total_posts)>>)
                           /\ phase' = "downloading"
                      ELSE IF CatchesDownloadError
                      THEN /\ downloaded' = downloaded
                           /\ Emit(<<Status("download_error", <<n>>),
                                     Progress(n, total_posts)>>)
                           /\ phase' = "downloading"
                      ELSE /\ downloaded' = downloaded
                           /\ Emit(<<Status("unexpected_error", <<>>)>>)
                           /\ phase' = "finished"
    /\ UNCHANGED <<download_btn_enabled, progress_visible, allowed_exts,
                   total_posts, fetchVars>>

Download == \E mkdir_ok \in BOOLEAN : ProcessPost(mkdir_ok)

\* Lines 166-167: the loop is exhausted.
finish_download ==
    /\ phase = "downloading"
    /\ processed = Len(posts)
    /\ Emit(<<Status("finished",
                     <<processed, total_posts, downloaded,
                       total_posts - downloaded>>)>>)
    /\ phase' = "finished"
    /\ UNCHANGED <<download_btn_enabled, progress_visible, allowed_exts,
                   fetchVars, dlVars>>

Click ==
    \E tags_empty, images, gif, video \in BOOLEAN :
        start_download(tags_empty, images, gif, video)

WorkerStep ==
    run_begin \/ Fetch \/ after_fetch \/ Download \/ finish_download

Next == Click \/ on_finished \/ WorkerStep

Spec == Init /\ [][Next]_vars

\* The thread is scheduled and the event loop delivers finished.
LiveSpec == Spec /\ WF_vars(WorkerStep) /\ WF_vars(on_finished)

\* ================================================================ claims
\* What the properties read off the run's record.
LastEvent == events[Len(events)]

HasStatus(key) ==
    \E i \in 1..Len(events) :
        events[i].sig = "status" /\ events[i].key = key

\* Position of the "starting_download" status, 0 before the download phase.
DlStart ==
    IF HasStatus("starting_download")
    THEN CHOOSE i \in 1..Len(events) : events[i].key = "starting_download"
    ELSE 0

\* The events of the download phase, and its progress events.
DlEvents ==
    IF DlStart = 0 THEN <<>> ELSE SubSeq(events, DlStart + 1, Len(events))

IsProgress(e) == e.sig = "progress"

DlProgress == SelectSeq(DlEvents, IsProgress)

RunOver == phase \in {"finished", "idle"} /\ Len(requested) > 0

\* The page failures, as the fetcher's contract lists them.
FailureKeys(resp) ==
    IF resp.status_code # 200 THEN {"http_error"}
    ELSE IF resp.text = "blank" THEN {"empty_response"}
    ELSE IF resp.data.type = "none" THEN {"json_error", "json_error_auth"}
    ELSE IF resp.data.type = "dict" /\ resp.data.success = <<FALSE>>
    THEN {"api_error"}
    ELSE IF resp.data.type = "other" THEN {"unexpected_type"}
    ELSE {}

TerminalKeys ==
    {"http_error", "empty_response", "json_error", "json_error_auth",
     "api_error", "unexpected_type", "no_posts", "finished",
     "unexpected_error"}

TerminalCount ==
    Cardinality({ i \in 1..Len(events) : events[i].key \in TerminalKeys })

\* C1: a 401 page response whose body holds "login_required" ends the run
\* with the authentication status json_error_auth and no other error.
C1_AuthStatusOn401 ==
    (RunOver /\ ~lastResp.raises /\ lastResp.status_code = 401
        /\ lastResp.text = "login_required")
        => LastEvent = Status("json_error_auth", <<>>)

\* C1 as amended: a 200 page response whose body is not JSON and names an
\* authentication requirement ("Missing authentication", or "login_required"
\* in any case) ends the run with json_error_auth; a 401 response ends it
\* with http_error carrying the status code.
C1_AuthStatusOnUnparsable ==
    (RunOver /\ ~lastResp.raises)
        => /\ (lastResp.status_code = 200 /\ lastResp.data.type = "none"
                 /\ lastResp.text \in {"Missing authentication",
                                       "login_required", "LOGIN_REQUIRED"})
                => LastEvent = Status("json_error_auth", <<>>)
           /\ lastResp.status_code = 401
                => LastEvent = Status("http_error", <<401>>)

C1_Witness ==
    /\ phase = "finished"
    /\ lastResp.status_code = 200
    /\ lastResp.text = "LOGIN_REQUIRED"
    /\ LastEvent = Status("json_error_auth", <<>>)

\* C2: in the download loop, every item whose processed count is a multiple
\* of 10 is followed by the aggregate status (processed, total, downloaded
\* so far), whatever the item's outcome was.
C2_AggregateEveryTen ==
    \A i \in 1..Len(DlEvents) :
        (IsProgress(DlEvents[i]) /\ DlEvents[i].a[1] % StatusEvery = 0)
            => \E j \in 1..Len(DlEvents) :
                 /\ DlEvents[j].key = "processed_downloaded"
                 /\ DlEvents[j].a[1] = DlEvents[i].a[1]
                 /\ DlEvents[j].a[2] = Len(posts)

\* C3: page requests carry the offsets 0, 1, 2, ... in order; offset n+1 is
\* requested only after the page at offset n was accepted with a full page
\* of records; once an accepted page is short, no page is requested again.
C3_Paging ==
    /\ \A i \in 1..Len(requested) : requested[i] = i - 1
    /\ Len(pageLens) <= Len(requested)
    /\ Len(requested) <= Len(pageLens) + 1
    /\ \A i \in 1..Len(requested) - 1 : pageLens[i] >= PageSize
    /\ (\E i \in 1..Len(pageLens) : pageLens[i] < PageSize)
         => (phase # "fetching" /\ Len(requested) = Len(pageLens))

C3_Witness ==
    /\ phase = "downloading"
    /\ requested = <<0, 1>>
    /\ pageLens = <<PageSize, 1>>
    /\ Len(posts) = PageSize + 1

\* C4: a run whose fetch phase fails, or ends with an empty batch, ends on
\* exactly one terminal status naming the reason, requests no file and makes
\* no category subdirectory, even after earlier pages delivered posts.
C4_FetchFailureEndsRun ==
    (RunOver /\ ~lastResp.raises
        /\ (FailureKeys(lastResp) # {} \/ Len(posts) = 0))
        => /\ LastEvent.sig = "status"
           /\ LastEvent.key \in
                (IF FailureKeys(lastResp) # {} THEN FailureKeys(lastResp)
                 ELSE {"no_posts"})
           /\ TerminalCount = 1
           /\ dlRequests = {}
           /\ subdirs = {}

C4_Witness ==
    /\ phase = "finished"
    /\ Len(posts) >= PageSize
    /\ FailureKeys(lastResp) = {"api_error"}
    /\ LastEvent = Status("api_error", <<>>)

\* C5: while a worker is in progress the start control is disabled, a worker
\* is only ever started when none is in progress, and a rejected
\* start_download leaves the control enabled and starts no worker.
C5_SingleWorker ==
    /\ [](phase # "idle" => ~download_btn_enabled)
    /\ [][phase' = "started" => phase = "idle"]_vars
    /\ [][(status_label' \in {"enter_tags_error", "select_file_type_error"}
             /\ status_label' # status_label)
            => (download_btn_enabled' /\ phase' = "idle"
                  /\ events' = events)]_vars

C5_Witness ==
    /\ phase = "downloading"
    /\ processed > 0
    /\ ~download_btn_enabled

Completed ==
    { i \in 1..Len(posts) :
        /\ posts[i].isdict /\ posts[i].has_url
        /\ ExtOf(posts[i]) \in allowed_exts
        /\ posts[i].ok }

\* C7: a failed download emits a per-URL download error and the loop goes
\* on; a run whose download phase meets no other exception ends on the
\* 'finished' status with processed = total, downloaded = the number of
\* posts downloaded without error and skipped = total - downloaded.
C7_DownloadErrorIsolated ==
    /\ [][(processed' # processed /\ processed' \in dlRequests'
             /\ ~posts[processed'].ok)
            => /\ phase' = "downloading"
               /\ events' = events \o
                    << Status("download_error", <<processed'>>),
                       Progress(processed', Len(posts)) >>]_vars
    /\ []((RunOver /\ HasStatus("starting_download")
             /\ ~HasStatus("unexpected_error"))
            => /\ LastEvent =
                    Status("finished",
                           << Len(posts), Len(posts), Cardinality(Completed),
                              Len(posts) - Cardinality(Completed) >>)
               /\ processed = Len(posts))

C7_Witness ==
    /\ phase = "finished"
    /\ LastEvent.key = "finished"
    /\ \E i, j \in dlRequests : i < j /\ ~posts[i].ok /\ posts[j].ok

\* C8: a category subdirectory exists only if an already processed post had
\* a usable file URL and an allowed extension of that category.
C8_DirsOnlyForAllowed ==
    subdirs \subseteq
        { Subdir(ExtOf(posts[i])) :
            i \in { j \in 1..processed :
                      /\ posts[j].isdict /\ posts[j].has_url
                      /\ ExtOf(posts[j]) \in allowed_exts } }

C8_Witness ==
    /\ subdirs = {"images"}
    /\ \E i \in 1..processed :
         /\ posts[i].isdict /\ posts[i].has_url
         /\ ExtOf(posts[i]) = ".gif"
         /\ ".gif" \notin allowed_exts

\* C9: after every accepted page the progress event is (batch size, total),
\* the total being the count attribute of the page at offset 0, or 0 when
\* none is known; pages at offset 1 or higher never set or change it.
C9_TotalFromFirstPage ==
    /\ [][(phase = "fetching" /\ pid >= 1)
            => (total_count' = total_count /\ has_total' = has_total)]_vars
    /\ []((phase \in {"fetching", "fetched"} /\ Len(pageLens) > 0)
            => events[Len(events) - 1] =
                 Progress(Len(posts), IF has_total THEN total_count ELSE 0))

\* C10: the download phase emits exactly one progress event per processed
\* post, in order: the k-th is (k, total), total being the batch size > 0;
\* a run that ends on 'finished' has emitted (1, total) .. (total, total).
C10_ProgressPerPost ==
    /\ \A k \in 1..Len(DlProgress) :
         DlProgress[k] = Progress(k, Len(posts)) /\ Len(posts) > 0
    /\ (DlStart > 0 /\ ~HasStatus("unexpected_error"))
         => Len(DlProgress) = processed
    /\ (DlStart > 0 /\ HasStatus("unexpected_error"))
         => Len(DlProgress) = processed - 1
    /\ HasStatus("finished") => Len(DlProgress) = Len(posts)

C10_Witness ==
    /\ phase = "finished"
    /\ LastEvent.key = "finished"
    /\ Len(posts) > PageSize
    /\ \E i, j \in 1..Len(posts) :
         /\ i \in dlRequests /\ ~posts[i].ok
         /\ ~posts[j].has_url

====
